---- MODULE Spec2Model ----
(***************************************************************************)
(* Motif discovery (src/motif_discovery.py): the profile builder, the      *)
(* scorer, the two k-mer selectors, the greedy search, the Gibbs chain and *)
(* the restart loop.                                                       *)
(*                                                                         *)
(* A DNA string is a sequence of one-letter strings.  A profile cell is a  *)
(* Python float; the model keeps it as the exact fraction [num, den] (the  *)
(* counts are small integers, so sums and products of the numerators are   *)
(* exact) and compares fractions by cross-multiplication.  A call that     *)
(* raises is the record [err |-> <exception name>, val |-> <<>>].          *)
(***************************************************************************)
EXTENDS Integers, Sequences, FiniteSets, TLC

\* ------------------------------------------------------------------ bounds
MaxN == 2
MaxR == 2
MaxMotifs == 2
MaxK == 2
MaxText == 3

\* ------------------------------------------------------- python primitives
Alphabet == <<"A", "C", "G", "T">>

Symbols == {Alphabet[a] : a \in DOMAIN Alphabet}

Ok(v) == [err |-> "none", val |-> v]

Raise(e) == [err |-> e, val |-> <<>>]

Min2(a, b) == IF a < b THEN a ELSE b

Max2(a, b) == IF a > b THEN a ELSE b

\* s[a:b]: a negative index counts from the end, both are clamped to 0..len(s)
PySliceIndex(len, x) == IF x < 0 THEN Max2(x + len, 0) ELSE Min2(x, len)

PySlice(s, a, b) ==
    LET lo == PySliceIndex(Len(s), a)
        hi == PySliceIndex(Len(s), b)
    IN  IF lo >= hi THEN <<>> ELSE SubSeq(s, lo + 1, hi)

\* range(m) as a set of 0-based indices (empty when m <= 0)
PyRange(m) == 0 .. (m - 1)

\* random.randint(a, b) raises ValueError on an empty range
RandintFails(a, b) == a > b

Randint(a, b) == a .. b

\* ---------------------------------------------------------------- fractions
Rat(n, d) == [num |-> n, den |-> d]

RatMul(x, y) == Rat(x.num * y.num, x.den * y.den)

RatAdd(x, y) == Rat(x.num * y.den + y.num * x.den, x.den * y.den)

RatGreaterOrEqual(x, y) == x.num * y.den >= y.num * x.den

RatGreater(x, y) == x.num * y.den > y.num * x.den

RatIsZero(x) == x.num = 0

\* ------------------------------------------------------------- get_profile
RECURSIVE CountIntoNoPseudocount(_, _, _, _)
\* the same loop started from 0.0
CountIntoNoPseudocount(motifs, nuc, i, j) ==
    IF j > Len(motifs) THEN 0
    ELSE CountIntoNoPseudocount(motifs, nuc, i, j + 1)
         + (IF i <= Len(motifs[j]) /\ motifs[j][i] = nuc THEN 1 ELSE 0)

RECURSIVE CountInto(_, _, _, _)
\* the  profile[char][i] += 1  loop for one cell, started from the pseudocount
CountInto(motifs, nuc, i, j) ==
    IF j > Len(motifs) THEN 1
    ELSE CountInto(motifs, nuc, i, j + 1)
         + (IF i <= Len(motifs[j]) /\ motifs[j][i] = nuc THEN 1 ELSE 0)

ColSum(motifs, i) ==
    CountInto(motifs, "A", i, 1) + CountInto(motifs, "C", i, 1)
    + CountInto(motifs, "G", i, 1) + CountInto(motifs, "T", i, 1)

get_profile(motifs) ==
    IF motifs = <<>> THEN Raise("IndexError")
    ELSE LET k0 == Len(motifs[1])
         IN  IF \E j \in DOMAIN motifs : Len(motifs[j]) > k0
             THEN Raise("IndexError")
             ELSE Ok([nuc \in Symbols |->
                        [i \in 1 .. k0 |->
                            Rat(CountInto(motifs, nuc, i, 1), ColSum(motifs, i))]])

\* ------------------------------------------------------------ score_motifs
RECURSIVE ColumnCount(_, _, _, _)
\* column.count(nuc) for column i
ColumnCount(motifs, nuc, i, j) ==
    IF j > Len(motifs) THEN 0
    ELSE ColumnCount(motifs, nuc, i, j + 1) + (IF motifs[j][i] = nuc THEN 1 ELSE 0)

RECURSIVE MaxCountFirstThree(_, _, _, _)
\* the same loop over 'ACG'
MaxCountFirstThree(motifs, i, a, max_count) ==
    IF a > Len(Alphabet) - 1 THEN max_count
    ELSE LET count == ColumnCount(motifs, Alphabet[a], i, 1)
         IN  MaxCountFirstThree(motifs, i, a + 1,
                                IF count > max_count THEN count ELSE max_count)

RECURSIVE MaxCount(_, _, _, _)
\* the  for nuc in 'ACGT'  loop: a count replaces max_count only if greater
MaxCount(motifs, i, a, max_count) ==
    IF a > Len(Alphabet) THEN max_count
    ELSE LET count == ColumnCount(motifs, Alphabet[a], i, 1)
         IN  MaxCount(motifs, i, a + 1, IF count > max_count THEN count ELSE max_count)

RECURSIVE ScoreLoop(_, _, _)
ScoreLoop(motifs, k0, i) ==
    IF i > k0 THEN 0
    ELSE (Len(motifs) - MaxCount(motifs, i, 1, 0)) + ScoreLoop(motifs, k0, i + 1)

score_motifs(motifs) ==
    IF motifs = <<>> THEN Raise("IndexError")
    ELSE LET k0 == Len(motifs[1])
         IN  IF \E j \in DOMAIN motifs : Len(motifs[j]) < k0
             THEN Raise("IndexError")
             ELSE Ok(ScoreLoop(motifs, k0, 1))

\* ----------------------------------------------------- window probabilities
\* profile[char][j] raises IndexError past the profile's last column
KmerFits(kmer, profile) ==
    \A j \in DOMAIN kmer : j <= Len(profile[kmer[j]])

RECURSIVE KmerProb(_, _, _)
\* prob = 1.0; prob *= profile[char][j]  for the characters from position j on
KmerProb(kmer, profile, j) ==
    IF j > Len(kmer) THEN Rat(1, 1)
    ELSE RatMul(profile[kmer[j]][j], KmerProb(kmer, profile, j + 1))

\* the windows  text[i:i+k]  for i in range(len(text) - k + 1), in order
Windows(text, k) ==
    [w \in 1 .. Max2(Len(text) - k + 1, 0) |-> PySlice(text, w - 1, w - 1 + k)]

\* ---------------------------------------------- profile_most_probable_kmer
RECURSIVE MostProbableLoop(_, _, _, _, _)
MostProbableLoop(wins, profile, w, max_prob, best_kmer) ==
    IF w > Len(wins) THEN Ok(best_kmer)
    ELSE IF ~KmerFits(wins[w], profile) THEN Raise("IndexError")
    ELSE LET prob == KmerProb(wins[w], profile, 1)
         IN  IF RatGreater(prob, max_prob)
             THEN MostProbableLoop(wins, profile, w + 1, prob, wins[w])
             ELSE MostProbableLoop(wins, profile, w + 1, max_prob, best_kmer)

profile_most_probable_kmer(text, k, profile) ==
    MostProbableLoop(Windows(text, k), profile, 1, Rat(-1, 1), PySlice(text, 0, k))

\* ----------------------------------------- profile_randomly_generated_kmer
RECURSIVE RatSum(_, _)
RatSum(probs, w) ==
    IF w > Len(probs) THEN Rat(0, 1) ELSE RatAdd(probs[w], RatSum(probs, w + 1))

\* random.choice(seq): any element; IndexError on an empty sequence
RandomChoice(kmers) ==
    IF kmers = <<>> THEN Raise("IndexError")
    ELSE Ok({kmers[w] : w \in DOMAIN kmers})

\* random.choices(kmers, k=1)[0]: the weights left out
RandomChoicesUnweighted(kmers, weights) == Ok({kmers[w] : w \in DOMAIN kmers})

\* random.choices(kmers, weights, k=1)[0]: an element whose weight is positive
RandomChoices(kmers, weights) ==
    Ok({kmers[w] : w \in {v \in DOMAIN kmers : weights[v].num > 0}})

\* the set of k-mers the call can return (val), or the exception it raises
profile_randomly_generated_kmer(text, k, profile) ==
    LET kmers == Windows(text, k)
    IN  IF \E w \in DOMAIN kmers : ~KmerFits(kmers[w], profile)
        THEN Raise("IndexError")
        ELSE LET probabilities == [w \in DOMAIN kmers |-> KmerProb(kmers[w], profile, 1)]
                 total_prob == RatSum(probabilities, 1)
             IN  IF RatIsZero(total_prob) THEN RandomChoice(kmers)
                 ELSE RandomChoices(kmers,
                        [w \in DOMAIN kmers |->
                            Rat(probabilities[w].num * total_prob.den,
                                probabilities[w].den * total_prob.num)])

\* ------------------------------------------------------------------- state
VARIABLES
    entry,               \* the function called
    dna, k, N, restarts, \* its arguments (t is len(dna) at every call site)
    text,                \* the selectors' text argument
    profile,             \* the profile: a selector's argument, a search's local
    motifs,              \* the motif set: an argument, or a search's working list
    best_motifs,         \* best_motifs of the greedy search and of the chain
    best_score,          \* best_score of the chain
    i,                   \* the index the chain's last step drew
    step,                \* loop iterations done (greedy: while, chain: for)
    chain,               \* restarts done by run_gibbs_with_restarts
    global_best_motifs,
    global_best_score,
    pc,                  \* position in the called function
    outcome,             \* "running", "returned" or the exception raised
    ret,                 \* the value returned
    choices,             \* history: the k-mers the last random draw could give
    visited,             \* history: the motif sets of the search, seed first
    chain_results        \* history: what each finished chain returned

vars == <<entry, dna, k, N, restarts, text, profile, motifs, best_motifs,
          best_score, i, step, chain, global_best_motifs, global_best_score,
          pc, outcome, ret, choices, visited, chain_results>>

\* float('inf'), and an int seen as a float
Inf == [inf |-> TRUE, v |-> 0]

Fin(x) == [inf |-> FALSE, v |-> x]

LessOrEqualFloat(score, g) == g.inf \/ score <= g.v

\* score < global_best_score  for an int score
LessThanFloat(score, g) == g.inf \/ score < g.v

t == Len(dna)

NoProfile == [nuc \in Symbols |-> <<>>]

\* ------------------------------------------------------------------ inputs
RECURSIVE Strings(_)
\* the DNA strings of length n
Strings(n) ==
    IF n <= 0 THEN {<<>>}
    ELSE {Append(s, c) : s \in Strings(n - 1), c \in Symbols}

Texts == UNION {Strings(n) : n \in 0 .. MaxText}

\* motif sets of equal-length entries, the empty one included
MotifSets == UNION {[1 .. m -> Strings(n)] : m \in 0 .. MaxMotifs, n \in 0 .. MaxK}

Column(a, c, g, tt, d) ==
    [nuc \in Symbols |->
        Rat(CASE nuc = "A" -> a [] nuc = "C" -> c [] nuc = "G" -> g [] OTHER -> tt, d)]

\* profile columns: some the builder produces, some with zero cells
ColumnPool ==
    { Column(1, 1, 1, 1, 4), Column(2, 1, 1, 1, 5), Column(1, 2, 1, 1, 5),
      Column(0, 0, 0, 0, 1), Column(1, 0, 0, 0, 1), Column(0, 1, 0, 1, 2) }

Profiles(n) ==
    {[nuc \in Symbols |-> [c \in 1 .. n |-> cols[c][nuc]]] : cols \in [1 .. n -> ColumnPool]}

DnaInputs ==
    { <<>>,
      << <<"A", "C", "G">> >>,
      << <<"A", "A">>, <<"A", "A">> >>,
      << <<"A", "C", "G">>, <<"C", "G", "T">> >>,
      << <<"C", "A", "T">>, <<"T", "A", "T">>, <<"A", "G", "G">> >>,
      << <<"A", "C", "G", "T">>, <<"A", "C">> >>,
      << <<"A", "C">>, <<"A", "C", "G", "T">> >> }

DnaRestarts ==
    { <<>>,
      << <<"A", "C", "G">> >>,
      << <<"A", "C">>, <<"C", "A">> >>,
      << <<"A", "C", "A">>, <<"A", "C">> >> }

KInputs == -1 .. (MaxK + 1)

Fresh ==
    /\ best_motifs = <<>> /\ best_score = 0 /\ i = 0 /\ step = 0 /\ chain = 0
    /\ global_best_motifs = <<>> /\ global_best_score = Inf
    /\ outcome = "running" /\ ret = <<>> /\ choices = {} /\ visited = <<>>
    /\ chain_results = <<>>

\* --------------------------------------------------- the helpers, called
InitFn ==
    /\ Fresh
    /\ pc = "call"
    /\ dna = <<>> /\ N = 0 /\ restarts = 0
    /\ \/ /\ entry \in {"get_profile", "score_motifs"}
          /\ motifs \in MotifSets
          /\ k = 0 /\ text = <<>> /\ profile = NoProfile
       \/ /\ entry \in {"profile_most_probable_kmer", "profile_randomly_generated_kmer"}
          /\ motifs = <<>>
          /\ text \in Texts
          /\ k \in 0 .. MaxK
          /\ profile \in Profiles(k)

Returned(v) ==
    /\ pc' = "done"
    /\ outcome' = "returned"
    /\ ret' = v

Fail(e) ==
    /\ pc' = "done"
    /\ outcome' = e
    /\ ret' = <<>>

Finish(r) == IF r.err = "none" THEN Returned(r.val) ELSE Fail(r.err)

CallGetProfile ==
    /\ pc = "call" /\ entry = "get_profile"
    /\ Finish(get_profile(motifs))
    /\ UNCHANGED <<entry, dna, k, N, restarts, text, profile, motifs, best_motifs,
                   best_score, i, step, chain, global_best_motifs,
                   global_best_score, choices, visited, chain_results>>

CallScoreMotifs ==
    /\ pc = "call" /\ entry = "score_motifs"
    /\ Finish(score_motifs(motifs))
    /\ UNCHANGED <<entry, dna, k, N, restarts, text, profile, motifs, best_motifs,
                   best_score, i, step, chain, global_best_motifs,
                   global_best_score, choices, visited, chain_results>>

CallMostProbable ==
    /\ pc = "call" /\ entry = "profile_most_probable_kmer"
    /\ Finish(profile_most_probable_kmer(text, k, profile))
    /\ UNCHANGED <<entry, dna, k, N, restarts, text, profile, motifs, best_motifs,
                   best_score, i, step, chain, global_best_motifs,
                   global_best_score, choices, visited, chain_results>>

CallRandomKmer ==
    /\ pc = "call" /\ entry = "profile_randomly_generated_kmer"
    /\ LET r == profile_randomly_generated_kmer(text, k, profile)
       IN  IF r.err = "none"
           THEN /\ choices' = r.val
                /\ \E kmer \in r.val : Returned(kmer)
           ELSE /\ choices' = {}
                /\ Fail(r.err)
    /\ UNCHANGED <<entry, dna, k, N, restarts, text, profile, motifs, best_motifs,
                   best_score, i, step, chain, global_best_motifs,
                   global_best_score, visited, chain_results>>

NextFn ==
    \/ CallGetProfile
    \/ CallScoreMotifs
    \/ CallMostProbable
    \/ CallRandomKmer

SpecFn == InitFn /\ [][NextFn]_vars

\* ------------------------------------------------------ the searches, called
Init ==
    /\ Fresh
    /\ text = <<>> /\ profile = NoProfile /\ motifs = <<>>
    /\ \/ /\ entry = "randomized_greedy_search"
          /\ pc = "seed"
          /\ dna \in DnaInputs /\ k \in KInputs
          /\ N = 0 /\ restarts = 0
       \/ /\ entry = "gibbs_sampler_chain"
          /\ pc = "seed"
          /\ dna \in DnaInputs /\ k \in KInputs
          /\ N \in -1 .. MaxN /\ restarts = 0
       \/ /\ entry = "run_gibbs_with_restarts"
          /\ pc = "rloop"
          /\ dna \in DnaRestarts /\ k \in KInputs
          /\ N \in 0 .. MaxN /\ restarts \in -1 .. MaxR

args == <<entry, dna, k, N, restarts, text>>

globals == <<chain, global_best_motifs, global_best_score, chain_results>>

\* the seeding loop:  r = random.randint(0, n - k); motifs.append(seq[r:r+k])
\* with n = len(dna[0]) for every seq
SeedMotifs(rs) == [j \in 1 .. t |-> PySlice(dna[j], rs[j], rs[j] + k)]

SeedDraws == [1 .. t -> Randint(0, Len(dna[1]) - k)]

SeedError ==
    IF dna = <<>> THEN "IndexError"
    ELSE IF RandintFails(0, Len(dna[1]) - k) THEN "ValueError"
    ELSE "none"

\* the first exception a list of call results holds, "none" if none
FirstError(rs) ==
    IF \A j \in DOMAIN rs : rs[j].err = "none" THEN "none"
    ELSE rs[CHOOSE j \in DOMAIN rs :
                /\ rs[j].err # "none"
                /\ \A h \in 1 .. (j - 1) : rs[h].err = "none"].err

GreedySeed ==
    /\ pc = "seed" /\ entry = "randomized_greedy_search"
    /\ IF SeedError # "none"
       THEN /\ Fail(SeedError)
            /\ UNCHANGED <<motifs, best_motifs, visited>>
       ELSE /\ \E rs \in SeedDraws : motifs' = SeedMotifs(rs)
            /\ best_motifs' = motifs'
            /\ visited' = <<motifs'>>
            /\ pc' = "loop"
            /\ UNCHANGED <<outcome, ret>>
    /\ UNCHANGED <<args, globals, profile, best_score, i, step, choices>>

GreedyImprovesOrTies(new_score, old_score) == new_score <= old_score

\* score_motifs(motifs) < score_motifs(best_motifs)
GreedyImproves(new_score, old_score) == new_score < old_score

\* one pass of  while True
GreedyIterate ==
    /\ pc = "loop" /\ entry = "randomized_greedy_search"
    /\ LET p == get_profile(motifs)
           picks == [j \in 1 .. t |-> profile_most_probable_kmer(dna[j], k, p.val)]
           new_motifs == [j \in 1 .. t |-> picks[j].val]
           new_score == score_motifs(new_motifs)
           old_score == score_motifs(best_motifs)
           error == IF p.err # "none" THEN p.err
                    ELSE IF FirstError(picks) # "none" THEN FirstError(picks)
                    ELSE IF new_score.err # "none" THEN new_score.err
                    ELSE old_score.err
       IN  IF error # "none"
           THEN /\ Fail(error)
                /\ UNCHANGED <<profile, motifs, best_motifs, step, visited>>
           ELSE /\ profile' = p.val
                /\ motifs' = new_motifs
                /\ visited' = Append(visited, new_motifs)
                /\ step' = step + 1
                /\ IF GreedyImproves(new_score.val, old_score.val)
                   THEN /\ best_motifs' = new_motifs
                        /\ UNCHANGED <<pc, outcome, ret>>
                   ELSE /\ Returned(best_motifs)
                        /\ UNCHANGED best_motifs
    /\ UNCHANGED <<args, globals, best_score, i, choices>>

GibbsSeed ==
    /\ pc = "seed"
    /\ entry \in {"gibbs_sampler_chain", "run_gibbs_with_restarts"}
    /\ IF SeedError # "none"
       THEN /\ Fail(SeedError)
            /\ UNCHANGED <<motifs, best_motifs, best_score, visited>>
       ELSE \E rs \in SeedDraws :
              LET seed == SeedMotifs(rs)
                  score == score_motifs(seed)
              IN  IF score.err # "none"
                  THEN /\ Fail(score.err)
                       /\ UNCHANGED <<motifs, best_motifs, best_score, visited>>
                  ELSE /\ motifs' = seed
                       /\ best_motifs' = seed
                       /\ best_score' = score.val
                       /\ visited' = <<seed>>
                       /\ pc' = "gloop"
                       /\ UNCHANGED <<outcome, ret>>
    /\ step' = 0
    /\ UNCHANGED <<args, globals, profile, i, choices>>

\* the whole motif set, entry i not left out
ExceptNothing(ms, x) == ms

\* current_motifs_except_i
ExceptEntry(ms, x) ==
    [j \in 1 .. (Len(ms) - 1) |-> IF j < x + 1 THEN ms[j] ELSE ms[j + 1]]

GibbsImprovesOrTies(current_score, score) == current_score <= score

\* current_score < best_score
GibbsImproves(current_score, score) == current_score < score

\* best_motifs = motifs  without the copy: one list under both names, so the
\* write  motifs[i] = kmer  shows through best_motifs
AliasAfterWrite(snapshot, written) == written

\* best_motifs = motifs[:]  is a list of its own: after the in-place write
\* motifs[i] = kmer  to the working list (written) it still holds its entries
SliceCopyAfterWrite(snapshot, written) == snapshot

\* one pass of  for _ in range(N)
GibbsStep ==
    /\ pc = "gloop" /\ step \in PyRange(N)
    /\ \E x \in Randint(0, t - 1) :
         LET p == get_profile(ExceptEntry(motifs, x))
             draw == profile_randomly_generated_kmer(dna[x + 1], k, p.val)
         IN  IF p.err # "none" \/ draw.err # "none"
             THEN /\ Fail(IF p.err # "none" THEN p.err ELSE draw.err)
                  /\ UNCHANGED <<profile, motifs, best_motifs, best_score, i, step,
                                 choices, visited>>
             ELSE \E kmer \in draw.val :
                    LET new_motifs == [motifs EXCEPT ![x + 1] = kmer]
                        current_score == score_motifs(new_motifs)
                    IN  IF current_score.err # "none"
                        THEN /\ Fail(current_score.err)
                             /\ UNCHANGED <<profile, motifs, best_motifs, best_score,
                                            i, step, choices, visited>>
                        ELSE /\ i' = x
                             /\ profile' = p.val
                             /\ choices' = draw.val
                             /\ motifs' = new_motifs
                             /\ visited' = Append(visited, new_motifs)
                             /\ step' = step + 1
                             /\ IF GibbsImproves(current_score.val, best_score)
                                THEN /\ best_motifs' = new_motifs
                                     /\ best_score' = current_score.val
                                ELSE /\ best_motifs' = SliceCopyAfterWrite(best_motifs,
                                                                           new_motifs)
                                     /\ UNCHANGED best_score
                             /\ UNCHANGED <<pc, outcome, ret>>
    /\ UNCHANGED <<args, globals>>

\* return best_motifs, best_score; under run_gibbs_with_restarts, the body of
\* its loop then folds the pair into the global best
GibbsReturn ==
    /\ pc = "gloop" /\ step \notin PyRange(N)
    /\ IF entry = "gibbs_sampler_chain"
       THEN /\ Returned(<<best_motifs, best_score>>)
            /\ UNCHANGED globals
       ELSE /\ chain_results' = Append(chain_results, <<best_motifs, best_score>>)
            /\ IF LessThanFloat(best_score, global_best_score)
               THEN /\ global_best_score' = Fin(best_score)
                    /\ global_best_motifs' = best_motifs
               ELSE UNCHANGED <<global_best_motifs, global_best_score>>
            /\ chain' = chain + 1
            /\ pc' = "rloop"
            /\ UNCHANGED <<outcome, ret>>
    /\ UNCHANGED <<args, profile, motifs, best_motifs, best_score, i, step, choices,
                   visited>>

\* for i in range(restarts): start the next chain, or return after the last
RestartsNext ==
    /\ pc = "rloop"
    /\ IF chain \in PyRange(restarts)
       THEN /\ pc' = "seed"
            /\ UNCHANGED <<outcome, ret>>
       ELSE Returned(<<global_best_motifs, global_best_score>>)
    /\ UNCHANGED <<args, globals, profile, motifs, best_motifs, best_score, i, step,
                   choices, visited>>

Next ==
    \/ GreedySeed
    \/ GreedyIterate
    \/ GibbsSeed
    \/ GibbsStep
    \/ GibbsReturn
    \/ RestartsNext

Spec == Init /\ [][Next]_vars

\* ------------------------------------------------------------------ claims
\* a non-empty collection of equal-length sequences and 1 <= k <= that length
ValidSearchInput ==
    /\ dna # <<>>
    /\ \A j \in DOMAIN dna : Len(dna[j]) = Len(dna[1])
    /\ 1 <= k
    /\ k <= Len(dna[1])

Score(ms) == score_motifs(ms).val

InSearch(name) == entry = name /\ pc # "seed"

\* C1: on a non-empty collection of equal-length sequences with 1 <= k <= n,
\* the greedy search raises nothing, every pass of its loop either strictly
\* lowers the Score of best_motifs or is the last one, and so it has returned
\* after at most (seed Score + 1) passes.
C1_GreedyTerminates ==
    (InSearch("randomized_greedy_search") /\ ValidSearchInput) =>
        /\ outcome = (IF pc = "done" THEN "returned" ELSE "running")
        /\ Len(visited) = step + 1
        /\ \A j \in 2 .. Len(visited) :
              \/ Score(visited[j]) < Score(visited[j - 1])
              \/ j = Len(visited) /\ pc = "done"
        /\ best_motifs = visited[IF pc = "done" THEN Len(visited) - 1 ELSE Len(visited)]
        /\ Score(best_motifs) <= Score(visited[1])
        /\ step <= Score(visited[1]) + (IF pc = "done" THEN 1 ELSE 0)
        /\ pc = "done" => ret = best_motifs

C1_Witness ==
    /\ InSearch("randomized_greedy_search") /\ ValidSearchInput
    /\ outcome = "returned"
    /\ step = 3
    /\ Score(ret) < Score(visited[1])

MinScore(ms) ==
    CHOOSE m \in {Score(ms[j]) : j \in DOMAIN ms} :
        \A j \in DOMAIN ms : m <= Score(ms[j])

FirstWithScore(ms, m) ==
    ms[CHOOSE j \in DOMAIN ms :
          /\ Score(ms[j]) = m
          /\ \A h \in 1 .. (j - 1) : Score(ms[h]) # m]

ChainResultIsMinimum ==
    /\ outcome = "returned"
    /\ step = N
    /\ Len(visited) = N + 1
    /\ ret[2] = MinScore(visited)
    /\ ret[1] = FirstWithScore(visited, ret[2])
    /\ ret[2] <= Score(visited[1])

\* C2: on a non-empty collection (t >= 1) with 1 <= k <= n and N >= 1, the
\* chain performs exactly N steps and returns the least Score among the seed
\* and the N motif sets visited, with the first motif set that reached it.
C2_ChainReturnsMinimum ==
    (entry = "gibbs_sampler_chain" /\ ValidSearchInput /\ N >= 1 /\ pc = "done")
        => ChainResultIsMinimum

\* C2, for two or more sequences: the same statement holds there.
C2_ChainReturnsMinimumOfSeveral ==
    (entry = "gibbs_sampler_chain" /\ ValidSearchInput /\ N >= 1 /\ pc = "done"
        /\ t >= 2) => ChainResultIsMinimum

C2_SingleSequenceRaises ==
    (entry = "gibbs_sampler_chain" /\ ValidSearchInput /\ N >= 1 /\ pc = "done"
        /\ t = 1) => outcome = "IndexError"

\* the earliest chain result with the least Score, as the pair returned
EarliestMinimum(results) ==
    LET c == CHOOSE c \in DOMAIN results :
                /\ \A h \in DOMAIN results : results[c][2] <= results[h][2]
                /\ \A h \in 1 .. (c - 1) : results[h][2] > results[c][2]
    IN  <<results[c][1], Fin(results[c][2])>>

\* C3: the global best is the result of the earliest chain among those with
\* the least Score (it is replaced on strict improvement only), so for
\* R >= 1 the pair returned has a Score <= that of each of the R chains run.
C3_RestartsReturnEarliestMinimum ==
    entry = "run_gibbs_with_restarts" =>
        /\ <<global_best_motifs, global_best_score>> =
              (IF chain_results = <<>> THEN <<(<<>>), Inf>>
               ELSE EarliestMinimum(chain_results))
        /\ Len(chain_results) = chain
        /\ (outcome = "returned" /\ restarts >= 1) =>
              /\ chain = restarts
              /\ ret = <<global_best_motifs, global_best_score>>
              /\ \A c \in DOMAIN chain_results :
                    ~ret[2].inf /\ ret[2].v <= chain_results[c][2]

C3_Witness ==
    /\ entry = "run_gibbs_with_restarts"
    /\ outcome = "returned"
    /\ restarts = 2
    /\ chain_results[1][2] = chain_results[2][2]
    /\ chain_results[1][1] # chain_results[2][1]
    /\ ret[1] = chain_results[1][1]

\* ---------------------------------------------- claims about the helpers
\* how often nuc stands at position c of the entries numbered in js
Occurrences(ms, js, nuc, c) == Cardinality({j \in js : ms[j][c] = nuc})

HighestCount(ms, c) ==
    CHOOSE m \in {Occurrences(ms, DOMAIN ms, nuc, c) : nuc \in Symbols} :
        \A nuc \in Symbols : Occurrences(ms, DOMAIN ms, nuc, c) <= m

RECURSIVE ColumnCosts(_, _)
ColumnCosts(ms, c) ==
    IF c = 0 THEN 0 ELSE (Len(ms) - HighestCount(ms, c)) + ColumnCosts(ms, c - 1)

Unanimous(ms) ==
    \A c \in 1 .. Len(ms[1]) : \A j, h \in DOMAIN ms : ms[j][c] = ms[h][c]

\* C4: for a non-empty motif set of t equal-length strings, score_motifs
\* returns the sum over the columns of (t - highest count of one symbol in the
\* column), a natural number that is 0 exactly when every column is unanimous.
C4_ScoreIsColumnCost ==
    (entry = "score_motifs" /\ pc = "done" /\ motifs # <<>>) =>
        /\ outcome = "returned"
        /\ ret \in Nat
        /\ ret = ColumnCosts(motifs, Len(motifs[1]))
        /\ ret = 0 <=> Unanimous(motifs)

C4_Witness ==
    /\ entry = "score_motifs" /\ pc = "done"
    /\ Len(motifs) = 2 /\ Len(motifs[1]) = 2
    /\ motifs[1][1] = "T" /\ motifs[2][1] = "T"
    /\ motifs[1][2] # motifs[2][2]
    /\ ret = 1

\* the product of the profile's cells for a window, left to right
RECURSIVE Weight(_, _, _)
Weight(kmer, pr, c) ==
    IF c = 0 THEN Rat(1, 1)
    ELSE LET rest == Weight(kmer, pr, c - 1)
             cell == pr[kmer[c]][c]
         IN  Rat(rest.num * cell.num, rest.den * cell.den)

WeightLess(x, y) == x.num * y.den < y.num * x.den

WindowWeight(w) == LET kmer == Windows(text, k)[w] IN Weight(kmer, profile, Len(kmer))

WindowCount == Len(text) - k + 1

\* C5: with n >= k, profile_most_probable_kmer returns the window of the
\* greatest product of profile probabilities among the n - k + 1 windows, the
\* leftmost one when several windows share that product.
C5_MostProbableIsLeftmostMaximum ==
    (entry = "profile_most_probable_kmer" /\ pc = "done" /\ k <= Len(text)) =>
        /\ outcome = "returned"
        /\ \E w \in 1 .. WindowCount :
              /\ ret = Windows(text, k)[w]
              /\ \A h \in 1 .. WindowCount : ~WeightLess(WindowWeight(w), WindowWeight(h))
              /\ \A h \in 1 .. (w - 1) : WeightLess(WindowWeight(h), WindowWeight(w))

C5_Witness ==
    /\ entry = "profile_most_probable_kmer" /\ pc = "done" /\ k = 2 /\ Len(text) = 3
    /\ Windows(text, k)[1] # Windows(text, k)[2]
    /\ WindowWeight(1).num > 0
    /\ ~WeightLess(WindowWeight(1), WindowWeight(2))
    /\ ~WeightLess(WindowWeight(2), WindowWeight(1))
    /\ ret = Windows(text, k)[1]

\* C8: for a non-empty motif set of t strings of length k, the cell of
\* get_profile for column c and symbol s is (count of s at c + 1) / (t + 4):
\* the four numerators of a column are >= 1 and sum to t + 4, so every cell
\* lies strictly between 0 and 1 and every column sums to 1.
C8_ProfileIsSmoothedFrequency ==
    (entry = "get_profile" /\ pc = "done" /\ motifs # <<>>) =>
        /\ outcome = "returned"
        /\ \A nuc \in Symbols : Len(ret[nuc]) = Len(motifs[1])
        /\ \A c \in 1 .. Len(motifs[1]) :
              /\ \A nuc \in Symbols :
                    /\ ret[nuc][c].num = Occurrences(motifs, DOMAIN motifs, nuc, c) + 1
                    /\ ret[nuc][c].den = Len(motifs) + 4
                    /\ ret[nuc][c].num >= 1
                    /\ 0 < ret[nuc][c].num /\ ret[nuc][c].num < ret[nuc][c].den
              /\ ret["A"][c].num + ret["C"][c].num + ret["G"][c].num + ret["T"][c].num
                    = Len(motifs) + 4

C8_Witness ==
    /\ entry = "get_profile" /\ pc = "done"
    /\ Len(motifs) = 2 /\ Len(motifs[1]) = 2
    /\ ret["G"][1] = Rat(3, 6)
    /\ ret["A"][2] = Rat(2, 6) /\ ret["C"][2] = Rat(2, 6)

AllWindows == {Windows(text, k)[w] : w \in 1 .. WindowCount}

NonZeroWindows ==
    {Windows(text, k)[w] : w \in {v \in 1 .. WindowCount : WindowWeight(v).num # 0}}

\* C10: with n >= k, profile_randomly_generated_kmer can return exactly the
\* windows of non-zero weight; when every weight is zero it raises nothing and
\* can return any of the n - k + 1 windows; with k = n it returns the one
\* window there is, as profile_most_probable_kmer does.
C10_RandomKmerSupport ==
    /\ (entry = "profile_randomly_generated_kmer" /\ pc = "done" /\ k <= Len(text)) =>
          /\ outcome = "returned"
          /\ choices = (IF NonZeroWindows # {} THEN NonZeroWindows ELSE AllWindows)
          /\ ret \in choices
          /\ k = Len(text) => ret = text
    /\ (entry = "profile_most_probable_kmer" /\ pc = "done" /\ k = Len(text)) =>
          /\ outcome = "returned"
          /\ ret = text

C10_Witness ==
    /\ entry = "profile_randomly_generated_kmer" /\ pc = "done"
    /\ Cardinality(NonZeroWindows) = 2
    /\ Cardinality(AllWindows) = 3
    /\ ret = Windows(text, k)[3]
    /\ WindowWeight(1).num = 0

\* --------------------------------------------- claims about the searches
\* a non-empty collection and 1 <= k <= min(sequence lengths)
KFitsEverySequence ==
    /\ dna # <<>>
    /\ 1 <= k
    /\ \A j \in DOMAIN dna : k <= Len(dna[j])

\* kmer is a contiguous substring of length exactly k of seq
IsWindowOf(kmer, seq) ==
    /\ Len(kmer) = k
    /\ \E o \in 0 .. (Len(seq) - k) : kmer = SubSeq(seq, o + 1, o + k)

IsWindowSet(ms) ==
    /\ Len(ms) = t
    /\ \A j \in 1 .. t : IsWindowOf(ms[j], dna[j])

\* C6: with a non-empty collection and 1 <= k <= min(sequence lengths), in
\* every state of the greedy search and of the chain (seed, every pass, the
\* result returned) the motif set has t entries, entry j being a contiguous
\* substring of length exactly k of sequence j.
C6_MotifSetsAreWindowSets ==
    (/\ entry \in {"randomized_greedy_search", "gibbs_sampler_chain"}
     /\ KFitsEverySequence
     /\ pc # "seed"
     /\ outcome \in {"running", "returned"}) =>
        /\ IsWindowSet(motifs)
        /\ IsWindowSet(best_motifs)
        /\ outcome = "returned" =>
              IsWindowSet(IF entry = "gibbs_sampler_chain" THEN ret[1] ELSE ret)

\* C6, for sequences of one length: the same statement holds there.
C6_MotifSetsAreWindowSetsEqualLengths ==
    (/\ entry \in {"randomized_greedy_search", "gibbs_sampler_chain"}
     /\ ValidSearchInput
     /\ pc # "seed"
     /\ outcome \in {"running", "returned"}) =>
        /\ IsWindowSet(motifs)
        /\ IsWindowSet(best_motifs)
        /\ outcome = "returned" =>
              IsWindowSet(IF entry = "gibbs_sampler_chain" THEN ret[1] ELSE ret)

\* the inputs the searches are to reject
InvalidInput ==
    \/ dna = <<>>
    \/ k <= 0
    \/ \E j \in DOMAIN dna : k > Len(dna[j])
    \/ entry \in {"gibbs_sampler_chain", "run_gibbs_with_restarts"} /\ N <= 0
    \/ entry = "run_gibbs_with_restarts" /\ restarts <= 0

\* C7: a search called with an invalid input (an empty collection, k larger
\* than a sequence, N, R or k zero or negative) ends in an error and returns
\* no motif set and no Score; any exception raised is taken for the error.
C7_InvalidInputIsRejected ==
    (pc = "done" /\ InvalidInput) => outcome \notin {"running", "returned"}

\* C7, for the deterministic selector: called with n < k it ends in an error.
C7_SelectorRejectsShortText ==
    (entry = "profile_most_probable_kmer" /\ pc = "done" /\ Len(text) < k)
        => outcome \notin {"running", "returned"}

\* C9: a chain step that drew index i built its profile from exactly the
\* t - 1 entries other than entry i, put a window of sequence i in entry i and
\* left every other entry as it was; best_motifs and best_score change in the
\* step only when the new Score is strictly lower than best_score.
C9_StepReplacesOneEntry ==
    [][(/\ entry \in {"gibbs_sampler_chain", "run_gibbs_with_restarts"}
        /\ KFitsEverySequence
        /\ pc = "gloop"
        /\ step' = step + 1) =>
            /\ i' \in 0 .. (t - 1)
            /\ \A j \in 1 .. t : j # i' + 1 => motifs'[j] = motifs[j]
            /\ IsWindowOf(motifs'[i' + 1], dna[i' + 1])
            /\ \A nuc \in Symbols :
                  /\ Len(profile'[nuc]) = k
                  /\ \A c \in 1 .. k :
                        profile'[nuc][c] =
                            Rat(Occurrences(motifs, (1 .. t) \ {i' + 1}, nuc, c) + 1,
                                (t - 1) + 4)
            /\ IF Score(motifs') < best_score
               THEN best_motifs' = motifs' /\ best_score' = Score(motifs')
               ELSE best_motifs' = best_motifs /\ best_score' = best_score]_vars

C9_Witness ==
    /\ entry = "gibbs_sampler_chain" /\ KFitsEverySequence /\ t = 3
    /\ pc = "gloop" /\ step = 2
    /\ visited[2] # visited[1] /\ visited[3] # visited[2]
    /\ best_motifs = visited[2]
    /\ Score(visited[3]) = Score(visited[2])

\* C11: in every state of the chain, and in the pair the chain and the
\* restart loop (R >= 1) return, the recorded best Score is score_motifs of
\* the recorded best motif set: the in-place writes to the working motif set
\* after the copy was taken leave the best motif set as it was.
C11_BestScoreIsScoreOfBestMotifs ==
    entry \in {"gibbs_sampler_chain", "run_gibbs_with_restarts"} =>
        /\ pc = "gloop" => score_motifs(best_motifs) = Ok(best_score)
        /\ chain_results # <<>> =>
              /\ ~global_best_score.inf
              /\ score_motifs(global_best_motifs) = Ok(global_best_score.v)
        /\ (outcome = "returned" /\ entry = "gibbs_sampler_chain") =>
              score_motifs(ret[1]) = Ok(ret[2])
        /\ (outcome = "returned" /\ entry = "run_gibbs_with_restarts" /\ restarts >= 1) =>
              /\ ~ret[2].inf
              /\ score_motifs(ret[1]) = Ok(ret[2].v)

C11_Witness ==
    /\ entry = "gibbs_sampler_chain" /\ KFitsEverySequence
    /\ outcome = "returned"
    /\ N = 2
    /\ ret[1] = visited[2]
    /\ visited[3] # visited[2]
    /\ Score(visited[3]) > ret[2]
    /\ motifs = visited[3]
====
